---- MODULE Spec2Model ----
(***************************************************************************)
(* Model of scripts/automate_bid_adapter.py.                               *)
(*                                                                         *)
(* Text (file contents, command-line arguments, identifiers) is a sequence *)
(* of one-character strings.  Three pseudo-characters abbreviate longer    *)
(* literals: START is the declaration matched by start_pat, ENDTOK is the  *)
(* two characters "};" matched by end_pat, and SUFFIX is the literal       *)
(* "BidAdapter" that update_prebid_modules appends to a bidder.  The       *)
(* characters "w45" and "w94" stand for runs of 45 and 94 letters, so that *)
(* array elements near the 100-column limit stay short sequences.          *)
(***************************************************************************)
EXTENDS Integers, Sequences, FiniteSets, TLC

VARIABLES
    pc,        \* position of the running process
    raw,       \* the --bidders argument
    bidders,   \* parse_bidders(raw)
    env,       \* process environment: is GH_TOKEN / GITHUB_TOKEN set
    fs,        \* the files the patchers read and write
    git,       \* per repository: branch, committed content, untracked files
    flags,     \* prebid_changed, ams_changed, sub_changed, prebid_sha, pr
    results,   \* the results dict of main
    log,       \* external commands and file writes of this run, in order
    printed,   \* has the summary been printed
    runs,      \* number of the current invocation of main
    hist       \* completed calls and runs, kept to state the properties

vars == <<pc, raw, bidders, env, fs, git, flags, results, log, printed, runs, hist>>

----------------------------------------------------------------------------
(* Characters *)

DQ == "\""
SQ == "'"
NL == "\n"
TAB == "\t"
SP == " "
LB == "["
RB == "]"
COMMA == ","
START == "START"
ENDTOK == "};"
SUFFIX == "BidAdapter"

Whitespace == {SP, NL, TAB}

(* len() of a character: the pseudo-characters count as the text they abbreviate *)
CharLen(c) ==
    CASE c = "w45" -> 45
      [] c = "w94" -> 94
      [] c = ENDTOK -> 2
      [] c = SUFFIX -> 10
      [] c = START -> 69
      [] OTHER -> 1

RECURSIVE StrLen(_)
StrLen(s) == IF s = <<>> THEN 0 ELSE CharLen(Head(s)) + StrLen(Tail(s))

----------------------------------------------------------------------------
(* str methods *)

RECURSIVE LStrip(_, _)
LStrip(s, cs) == IF s # <<>> /\ Head(s) \in cs THEN LStrip(Tail(s), cs) ELSE s

RECURSIVE RStrip(_, _)
RStrip(s, cs) ==
    IF s # <<>> /\ s[Len(s)] \in cs THEN RStrip(SubSeq(s, 1, Len(s) - 1), cs) ELSE s

Strip(s, cs) == RStrip(LStrip(s, cs), cs)

(* s[i:] starts with p *)
StartsWithAt(s, i, p) ==
    /\ i + Len(p) - 1 <= Len(s)
    /\ \A j \in 1..Len(p) : s[i + j - 1] = p[j]

(* p in s, for strings *)
IsSubstring(p, s) == \E i \in 1..(Len(s) + 1) : StartsWithAt(s, i, p)

(* str.split(sep) for a one-character separator *)
RECURSIVE Split(_, _)
Split(s, sep) ==
    IF \A i \in 1..Len(s) : s[i] # sep
    THEN <<s>>
    ELSE LET i == CHOOSE k \in 1..Len(s) : s[k] = sep /\ \A j \in 1..(k - 1) : s[j] # sep
         IN  <<SubSeq(s, 1, i - 1)>> \o Split(SubSeq(s, i + 1, Len(s)), sep)

RECURSIVE Join(_, _)
Join(parts, sep) ==
    IF parts = <<>> THEN <<>>
    ELSE IF Len(parts) = 1 THEN parts[1]
    ELSE parts[1] \o sep \o Join(Tail(parts), sep)

SeqToSet(s) == {s[i] : i \in 1..Len(s)}

Quoted(v) == <<DQ>> \o v \o <<DQ>>

(* all sequences over S of length at most n *)
SeqsUpTo(S, n) == UNION {[1..k -> S] : k \in 0..n}

----------------------------------------------------------------------------
(* json.loads / json.dumps on the documents these files and arguments hold: *)
(* strings and (nested) arrays of strings.                                  *)

(* Lexer: a sequence of tokens [k, v]; k is "[", "]", ",", "ws", "str" or   *)
(* "bad" (anything json rejects: a bare letter, a quote that never closes). *)
RECURSIVE JsonTokens(_)
JsonTokens(s) ==
    IF s = <<>> THEN <<>>
    ELSE LET c == Head(s) IN
         IF c \in {LB, RB, COMMA}
         THEN <<[k |-> c, v |-> <<>>]>> \o JsonTokens(Tail(s))
         ELSE IF c \in Whitespace
         THEN <<[k |-> "ws", v |-> <<c>>]>> \o JsonTokens(Tail(s))
         ELSE IF c = DQ /\ \E j \in 2..Len(s) : s[j] = DQ
         THEN LET j == CHOOSE n \in 2..Len(s) :
                           s[n] = DQ /\ \A m \in 2..(n - 1) : s[m] # DQ
                  body == SubSeq(s, 2, j - 1)
              IN  IF \E m \in 1..Len(body) : body[m] \in {NL, TAB}
                  THEN <<[k |-> "bad", v |-> <<>>]>>
                  ELSE <<[k |-> "str", v |-> body]>> \o JsonTokens(SubSeq(s, j + 1, Len(s)))
         ELSE <<[k |-> "bad", v |-> <<>>]>>

NoWs(toks) == SelectSeq(toks, LAMBDA t : t.k # "ws")

(* Parser state after token i: st is "val" (a value must follow), "open"   *)
(* (a value or "]" may follow), "after" (a value has ended), "err".        *)
RECURSIVE JsonScan(_, _, _, _)
JsonScan(t, i, depth, st) ==
    IF i > Len(t) THEN depth = 0 /\ st = "after"
    ELSE LET k == t[i].k IN
         CASE k = "str" -> st \in {"val", "open"} /\ JsonScan(t, i + 1, depth, "after")
           [] k = LB    -> st \in {"val", "open"} /\ JsonScan(t, i + 1, depth + 1, "open")
           [] k = RB    -> /\ \/ st = "open"
                              \/ st = "after" /\ depth > 0
                           /\ JsonScan(t, i + 1, depth - 1, "after")
           [] k = COMMA -> st = "after" /\ depth > 0 /\ JsonScan(t, i + 1, depth, "val")
           [] OTHER     -> FALSE

JsonValid(s) == JsonScan(NoWs(JsonTokens(s)), 1, 0, "val")

(* nesting depth of token i: the number of "[" minus "]" before it *)
RECURSIVE DepthAt(_, _)
DepthAt(t, i) ==
    IF i <= 1 THEN 0
    ELSE DepthAt(t, i - 1) + (IF t[i - 1].k = LB THEN 1 ELSE 0) - (IF t[i - 1].k = RB THEN 1 ELSE 0)

(* kind of the document: "list", "str" or "error" (JSONDecodeError) *)
JsonKind(s) ==
    IF ~JsonValid(s) THEN "error"
    ELSE IF NoWs(JsonTokens(s))[1].k = LB THEN "list" ELSE "str"

(* the elements of a parsed list that are strings, in order *)
JsonStrItems(s) ==
    LET t == NoWs(JsonTokens(s))
        idx == SelectSeq([i \in 1..Len(t) |-> i], LAMBDA i : t[i].k = "str" /\ DepthAt(t, i) = 1)
    IN  [n \in 1..Len(idx) |-> t[idx[n]].v]

(* does the parsed list hold an element that is not a string *)
JsonHasNonStrItem(s) ==
    LET t == NoWs(JsonTokens(s)) IN \E i \in 1..Len(t) : t[i].k = LB /\ DepthAt(t, i) = 1

Indent(n) == [i \in 1..(4 * n) |-> SP]

(* json.dumps(data, indent=4) of the value whose tokens are t *)
RECURSIVE JsonDumpsFrom(_, _)
JsonDumpsFrom(t, i) ==
    IF i > Len(t) THEN <<>>
    ELSE LET k == t[i].k
             d == DepthAt(t, i)
             piece ==
                 CASE k = "str" -> Quoted(t[i].v)
                   [] k = LB    -> IF t[i + 1].k = RB THEN <<LB>>
                                   ELSE <<LB, NL>> \o Indent(d + 1)
                   [] k = RB    -> IF t[i - 1].k = LB THEN <<RB>>
                                   ELSE <<NL>> \o Indent(d - 1) \o <<RB>>
                   [] OTHER     -> <<COMMA, NL>> \o Indent(d)
         IN  piece \o JsonDumpsFrom(t, i + 1)

(* the tokens of data after data.append(value) *)
JsonAppend(t, value) ==
    LET item == [k |-> "str", v |-> value]
        front == SubSeq(t, 1, Len(t) - 1)
    IN  IF Len(t) = 2
        THEN <<t[1], item, t[2]>>
        ELSE front \o <<[k |-> COMMA, v |-> <<>>], item, t[Len(t)]>>

----------------------------------------------------------------------------
(* parse_bidders *)

QuoteChars == {DQ, SQ}

parse_bidders(r) ==
    LET s == Strip(r, Whitespace) IN
    IF s = <<>> THEN [err |-> "none", val |-> <<>>]
    ELSE IF s[1] = LB
    THEN IF JsonKind(s) = "error" THEN [err |-> "JSONDecodeError", val |-> <<>>]
         ELSE IF JsonHasNonStrItem(s) THEN [err |-> "AttributeError", val |-> <<>>]
         ELSE LET items == JsonStrItems(s)
              IN  [err |-> "none",
                   val |-> [i \in 1..Len(items) |->
                               Strip(Strip(items[i], Whitespace), QuoteChars)]]
    ELSE LET pieces == Split(s, COMMA)
             kept == SelectSeq(pieces, LAMBDA b : Strip(b, Whitespace) # <<>>)
         IN  [err |-> "none",
              val |-> [i \in 1..Len(kept) |-> Strip(kept[i], Whitespace)]]

----------------------------------------------------------------------------
(* ensure_line_in_json_array *)

(* re.search(rf"\"{re.escape(value)}\"\s*\]", text) *)
SearchValueBeforeBracket(text, value) ==
    \E i \in 1..Len(text) :
        /\ StartsWithAt(text, i, Quoted(value))
        /\ \E k \in (i + Len(value) + 2)..Len(text) :
               /\ text[k] = RB
               /\ \A m \in (i + Len(value) + 2)..(k - 1) : text[m] \in Whitespace

(* last index of the whitespace run that follows position i *)
RECURSIVE RunEnd(_, _)
RunEnd(s, i) == IF i < Len(s) /\ s[i + 1] \in Whitespace THEN RunEnd(s, i + 1) ELSE i

(* Last index consumed by a match of \]\s*$ (MULTILINE) that starts at the  *)
(* "]" at position i, or 0 when there is none: \s* is greedy and backs off  *)
(* until $ holds, at the end of the text or just before a newline.          *)
BracketEolMatchEnd(s, i) ==
    LET j == RunEnd(s, i) IN
    IF j = Len(s) THEN j
    ELSE IF \E p \in (i + 1)..j : s[p] = NL
    THEN (CHOOSE p \in (i + 1)..j : s[p] = NL /\ \A q \in (p + 1)..j : s[q] # NL) - 1
    ELSE 0

(* re.sub(r"\]\s*$", repl, text, flags=re.MULTILINE): every match, left to right *)
RECURSIVE SubBracketEol(_, _, _)
SubBracketEol(s, i, repl) ==
    IF i > Len(s) THEN <<>>
    ELSE IF s[i] = RB /\ BracketEolMatchEnd(s, i) # 0
    THEN repl \o SubBracketEol(s, BracketEolMatchEnd(s, i) + 1, repl)
    ELSE <<s[i]>> \o SubBracketEol(s, i + 1, repl)

InsertedLine(value) == <<SP, SP, SP, SP>> \o Quoted(value) \o <<NL, RB>>

(* Returns what the call returns (changed), the file content after it,     *)
(* whether write_text ran, and the exception that escapes ("none" if none). *)
ensure_line_in_json_array(text, value) ==
    LET kind == JsonKind(text)
        toks == NoWs(JsonTokens(text))
    IN
    CASE kind = "list" ->
            IF \E i \in 1..Len(JsonStrItems(text)) : JsonStrItems(text)[i] = value
            THEN [changed |-> FALSE, text |-> text, wrote |-> FALSE, err |-> "none"]
            ELSE [changed |-> TRUE,
                  text |-> JsonDumpsFrom(JsonAppend(toks, value), 1) \o <<NL>>,
                  wrote |-> TRUE, err |-> "none"]
      [] kind = "str" ->
            IF IsSubstring(value, toks[1].v)
            THEN [changed |-> FALSE, text |-> text, wrote |-> FALSE, err |-> "none"]
            ELSE [changed |-> FALSE, text |-> text, wrote |-> FALSE, err |-> "AttributeError"]
      [] OTHER ->
            IF SearchValueBeforeBracket(text, value)
            THEN [changed |-> FALSE, text |-> text, wrote |-> FALSE, err |-> "none"]
            ELSE [changed |-> TRUE,
                  text |-> SubBracketEol(text, 1, InsertedLine(value)),
                  wrote |-> TRUE, err |-> "none"]

----------------------------------------------------------------------------
(* update_prebid_modules *)

BidAdapter(bidder) == bidder \o <<SUFFIX>>

(* the loop over bidders from index i on; acc is the state reached so far *)
RECURSIVE PrebidLoop(_, _, _)
PrebidLoop(bs, i, acc) ==
    IF i > Len(bs) \/ acc.err # "none" THEN acc
    ELSE LET r == ensure_line_in_json_array(acc.text, BidAdapter(bs[i]))
         IN  PrebidLoop(bs, i + 1,
                        [changed |-> acc.changed \/ r.changed,
                         text |-> r.text,
                         wrote |-> acc.wrote \/ r.wrote,
                         err |-> r.err])

(* f is the file: [exists, text] *)
update_prebid_modules(f, bs) ==
    IF ~f.exists
    THEN [changed |-> FALSE, text |-> f.text, wrote |-> FALSE, err |-> "FileNotFoundError"]
    ELSE PrebidLoop(bs, 1, [changed |-> FALSE, text |-> f.text, wrote |-> FALSE, err |-> "none"])

----------------------------------------------------------------------------
(* update_ams_helper *)

WidthLimit == 100

(* re.findall(r'"([^"]+)"', s) from position i on *)
RECURSIVE FindAllQuoted(_, _)
FindAllQuoted(s, i) ==
    IF i > Len(s) THEN <<>>
    ELSE IF s[i] # DQ THEN FindAllQuoted(s, i + 1)
    ELSE IF \A j \in (i + 1)..Len(s) : s[j] # DQ THEN <<>>
    ELSE LET j == CHOOSE n \in (i + 1)..Len(s) :
                      s[n] = DQ /\ \A m \in (i + 1)..(n - 1) : s[m] # DQ
         IN  IF j = i + 1 THEN FindAllQuoted(s, i + 1)
             ELSE <<SubSeq(s, i + 1, j - 1)>> \o FindAllQuoted(s, j + 1)

(* index of the first occurrence of character c in s, 0 when there is none *)
FirstIndex(s, c) ==
    IF \A i \in 1..Len(s) : s[i] # c THEN 0
    ELSE CHOOSE i \in 1..Len(s) : s[i] = c /\ \A j \in 1..(i - 1) : s[j] # c

LineIndent == <<TAB, TAB, TAB>>

(* the token of combined[i]: quoted, with a comma unless it is the last *)
PackToken(combined, i) ==
    Quoted(combined[i]) \o (IF i < Len(combined) THEN <<COMMA>> ELSE <<>>)

(* a packing loop that compares the token alone with the limit *)
RECURSIVE PackLinesTokenOnly(_, _, _, _)
PackLinesTokenOnly(combined, i, lines, current) ==
    IF i > Len(combined)
    THEN IF Strip(current, Whitespace) # <<>>
         THEN Append(lines, RStrip(current, Whitespace))
         ELSE lines
    ELSE LET token == PackToken(combined, i) IN
         IF StrLen(token) > WidthLimit
         THEN PackLinesTokenOnly(combined, i + 1, Append(lines, RStrip(current, Whitespace)),
                                 LineIndent \o token \o <<SP>>)
         ELSE PackLinesTokenOnly(combined, i + 1, lines, current \o token \o <<SP>>)

(* the packing loop from item i on *)
RECURSIVE PackLines(_, _, _, _)
PackLines(combined, i, lines, current) ==
    IF i > Len(combined)
    THEN IF Strip(current, Whitespace) # <<>>
         THEN Append(lines, RStrip(current, Whitespace))
         ELSE lines
    ELSE LET token == PackToken(combined, i) IN
         IF StrLen(current) + StrLen(token) > WidthLimit
         THEN PackLines(combined, i + 1, Append(lines, RStrip(current, Whitespace)),
                        LineIndent \o token \o <<SP>>)
         ELSE PackLines(combined, i + 1, lines, current \o token \o <<SP>>)

NewBody(combined) ==
    <<NL>> \o Join(PackLines(combined, 1, <<>>, LineIndent), <<NL>>) \o <<NL, TAB, TAB>>

(* a splice that resumes one character after end_idx *)
SpliceAfterTerminator(text, start_idx, end_idx, new_body) ==
    SubSeq(text, 1, start_idx) \o new_body \o SubSeq(text, end_idx + 2, Len(text))

(* text[:start_idx] + new_body + text[end_idx:], indices as in the code (0-based) *)
Splice(text, start_idx, end_idx, new_body) ==
    SubSeq(text, 1, start_idx) \o new_body \o SubSeq(text, end_idx + 1, Len(text))

NewItems(existing, bs) == SelectSeq(bs, LAMBDA b : b \notin SeqToSet(existing))

(* f is the file: [exists, text] *)
update_ams_helper(f, bs) ==
    LET text == f.text
        same(e) == [changed |-> FALSE, text |-> text, wrote |-> FALSE, err |-> e]
        start_idx == FirstIndex(text, START)
        tail == SubSeq(text, start_idx + 1, Len(text))
        end_rel == FirstIndex(tail, ENDTOK)
        end_idx == start_idx + end_rel - 1
        array_body == SubSeq(tail, 1, end_rel - 1)
        existing == FindAllQuoted(array_body, 1)
        new_items == NewItems(existing, bs)
    IN
    IF ~f.exists THEN same("FileNotFoundError")
    ELSE IF start_idx = 0 THEN same("RuntimeError")
    ELSE IF end_rel = 0 THEN same("RuntimeError")
    ELSE IF new_items = <<>> THEN same("none")
    ELSE [changed |-> TRUE,
          text |-> Splice(text, start_idx, end_idx, NewBody(existing \o new_items)),
          wrote |-> TRUE, err |-> "none"]

----------------------------------------------------------------------------
(* The process: main and the routines it calls.  One action per external   *)
(* command (a call of run) and per patcher call.                           *)

Repos == {"prebid", "pubfig", "ams"}

(* exit status of an external command: 0, or nonzero *)
ExitCodes == {0, 1}

Aborted == <<"main", "aborted">>

(* a run() that swallows the failure *)
PropagateSwallowed(rc, next) == next

(* run(): a nonzero exit raises CalledProcessError out of the caller, which *)
(* main does not catch; otherwise the caller goes on to next.               *)
Propagate(rc, next) == IF rc # 0 THEN Aborted ELSE next

(* an uncaught exception of a patcher ends the process too *)
RaiseOr(err, next) == IF err # "none" THEN Aborted ELSE next

Entry(r, cmd, rc, out) == [repo |-> r, cmd |-> cmd, rc |-> rc, out |-> out]

(* subprocess.run under run(): the command is executed and exits with rc *)
Run(r, cmd, rc, out) == log' = Append(log, Entry(r, cmd, rc, out))

(* the tracked artefact of repository r in its working tree *)
Wt(r) ==
    CASE r = "prebid" -> fs.modules.text
      [] r = "ams"    -> fs.helper.text
      [] OTHER        -> fs.sub.ptr

WithWt(r, c) ==
    CASE r = "prebid" -> [fs EXCEPT !.modules.text = c]
      [] r = "ams"    -> [fs EXCEPT !.helper.text = c]
      [] OTHER        -> [fs EXCEPT !.sub.ptr = c]

FileDirty(r) == Wt(r) # git[r].head

(* git status --porcelain prints something *)
Dirty(r) == FileDirty(r) \/ git[r].other

(* git checkout <base> refuses to overwrite a locally modified file that   *)
(* differs between the two commits; otherwise local changes are carried.   *)
CheckoutAllowed(r) == ~FileDirty(r) \/ git[r].head = git[r].base

NoResult == [set |-> FALSE, changed |-> FALSE, pr |-> <<>>]

NoFlags ==
    [prebid_changed |-> FALSE, ams_changed |-> FALSE, sub_changed |-> FALSE,
     prebid_sha |-> 0, pr |-> <<>>, modules0 |-> <<>>]

PrUrl == <<"u", "r", "l">>

(* main, lines 182-185 *)
Parse ==
    /\ pc = <<"main", "parse">>
    /\ LET r == parse_bidders(raw) IN
         /\ bidders' = r.val
         /\ pc' = IF r.err # "none" THEN Aborted
                  ELSE IF r.val = <<>> THEN <<"main", "exit1">>
                  ELSE <<"main", "auth">>
    /\ flags' = [flags EXCEPT !.modules0 = fs.modules.text]
    /\ UNCHANGED <<raw, env, fs, git, results, log, printed, runs, hist>>

(* gh_login_from_env, lines 139-141: no token, nothing to do *)
AuthNoToken ==
    /\ pc = <<"main", "auth">>
    /\ ~env.token
    /\ pc' = <<"main", "patch_prebid">>
    /\ UNCHANGED <<raw, bidders, env, fs, git, flags, results, log, printed, runs, hist>>

(* gh_login_from_env, lines 142-146: the failure of gh auth status is caught *)
AuthStatus ==
    /\ pc = <<"main", "auth">>
    /\ env.token
    /\ \E rc \in ExitCodes :
         /\ Run("main", "gh_auth_status", rc, "")
         /\ pc' = IF rc = 0 THEN <<"main", "patch_prebid">> ELSE <<"main", "login">>
    /\ UNCHANGED <<raw, bidders, env, fs, git, flags, results, printed, runs, hist>>

(* gh_login_from_env, line 147 *)
AuthLogin ==
    /\ pc = <<"main", "login">>
    /\ \E rc \in ExitCodes :
         /\ Run("main", "gh_auth_login", rc, "")
         /\ pc' = Propagate(rc, <<"main", "patch_prebid">>)
    /\ UNCHANGED <<raw, bidders, env, fs, git, flags, results, printed, runs, hist>>

(* main, line 193 *)
PatchPrebid ==
    /\ pc = <<"main", "patch_prebid">>
    /\ LET r == update_prebid_modules(fs.modules, bidders) IN
         /\ fs' = [fs EXCEPT !.modules.text = r.text]
         /\ flags' = IF r.err = "none" THEN [flags EXCEPT !.prebid_changed = r.changed] ELSE flags
         /\ log' = Append(log, Entry("prebid", "patch", 0, IF r.wrote THEN "wrote" ELSE ""))
         /\ pc' = RaiseOr(r.err, <<"main", "patch_ams">>)
    /\ UNCHANGED <<raw, bidders, env, git, results, printed, runs, hist>>

(* main, line 194; lines 196-199 compute the branch name and touch no state *)
PatchAms ==
    /\ pc = <<"main", "patch_ams">>
    /\ LET r == update_ams_helper(fs.helper, bidders) IN
         /\ fs' = [fs EXCEPT !.helper.text = r.text]
         /\ flags' = IF r.err = "none" THEN [flags EXCEPT !.ams_changed = r.changed] ELSE flags
         /\ log' = Append(log, Entry("ams", "patch", 0, IF r.wrote THEN "wrote" ELSE ""))
         /\ pc' = RaiseOr(r.err, <<"prebid", "fetch">>)
    /\ UNCHANGED <<raw, bidders, env, git, results, printed, runs, hist>>

(* git_prepare_branch, line 151 *)
GitFetch(r) ==
    /\ pc = <<r, "fetch">>
    /\ \E rc \in ExitCodes :
         /\ Run(r, "fetch", rc, "")
         /\ pc' = Propagate(rc, <<r, "checkout_base">>)
    /\ UNCHANGED <<raw, bidders, env, fs, git, flags, results, printed, runs, hist>>

(* git_prepare_branch, line 152 *)
GitCheckoutBase(r) ==
    /\ pc = <<r, "checkout_base">>
    /\ \E rc \in ExitCodes :
         /\ rc = 0 => CheckoutAllowed(r)
         /\ Run(r, "checkout_base", rc, "")
         /\ pc' = Propagate(rc, <<r, "pull">>)
         /\ IF rc = 0
            THEN /\ git' = [git EXCEPT ![r].cur = "base", ![r].head = git[r].base,
                                       ![r].sha = git[r].baseSha]
                 /\ fs' = IF FileDirty(r) THEN fs ELSE WithWt(r, git[r].base)
            ELSE UNCHANGED <<git, fs>>
    /\ UNCHANGED <<raw, bidders, env, flags, results, printed, runs, hist>>

(* git_prepare_branch, line 153: the remote base is the local base *)
GitPull(r) ==
    /\ pc = <<r, "pull">>
    /\ \E rc \in ExitCodes :
         /\ Run(r, "pull", rc, "")
         /\ pc' = Propagate(rc, <<r, "checkout_B">>)
    /\ UNCHANGED <<raw, bidders, env, fs, git, flags, results, printed, runs, hist>>

(* git_prepare_branch, line 154: create or reset the branch at HEAD *)
GitCheckoutB(r) ==
    /\ pc = <<r, "checkout_B">>
    /\ \E rc \in ExitCodes :
         /\ Run(r, "checkout_B", rc, "")
         /\ pc' = Propagate(rc, IF r = "pubfig" THEN <<r, "sync">> ELSE <<r, "status">>)
         /\ git' = IF rc = 0 THEN [git EXCEPT ![r].cur = "feature"] ELSE git
    /\ UNCHANGED <<raw, bidders, env, fs, flags, results, printed, runs, hist>>

(* sync_pubfig_submodule_to_prebid_sha, lines 80-82 *)
SyncEnter ==
    /\ pc = <<"pubfig", "sync">>
    /\ log' = Append(log, Entry("pubfig", "patch", 0, IF fs.sub.declared THEN "wrote" ELSE ""))
    /\ flags' = IF fs.sub.declared THEN flags ELSE [flags EXCEPT !.sub_changed = FALSE]
    /\ pc' = IF fs.sub.declared THEN <<"pubfig", "sub_update">> ELSE <<"pubfig", "status">>
    /\ UNCHANGED <<raw, bidders, env, fs, git, results, printed, runs, hist>>

(* sync_pubfig_submodule_to_prebid_sha, lines 83-86 *)
SyncCommand ==
    \E step \in {<<"sub_update", "sub_fetch">>, <<"sub_fetch", "sub_checkout">>,
                 <<"sub_checkout", "sub_add">>, <<"sub_add", "sub_status">>} :
        /\ pc = <<"pubfig", step[1]>>
        /\ \E rc \in ExitCodes :
             /\ Run("pubfig", step[1], rc, "")
             /\ pc' = Propagate(rc, <<"pubfig", step[2]>>)
             /\ fs' = IF rc = 0 /\ step[1] = "sub_checkout"
                      THEN WithWt("pubfig", flags.prebid_sha) ELSE fs
        /\ UNCHANGED <<raw, bidders, env, git, flags, results, printed, runs, hist>>

(* sync_pubfig_submodule_to_prebid_sha, lines 87-88 *)
SyncStatus ==
    /\ pc = <<"pubfig", "sub_status">>
    /\ \E rc \in ExitCodes :
         /\ Run("pubfig", "sub_status", rc, IF Dirty("pubfig") THEN "dirty" ELSE "clean")
         /\ pc' = Propagate(rc, <<"pubfig", "status">>)
         /\ flags' = IF rc = 0 THEN [flags EXCEPT !.sub_changed = Dirty("pubfig")] ELSE flags
    /\ UNCHANGED <<raw, bidders, env, fs, git, results, printed, runs, hist>>

(* git_commit_push, lines 158-160; a clean tree gives pr = "" (lines 203, 211, 216) *)
GitStatus(r) ==
    /\ pc = <<r, "status">>
    /\ \E rc \in ExitCodes :
         /\ Run(r, "status", rc, IF Dirty(r) THEN "dirty" ELSE "clean")
         /\ pc' = Propagate(rc, IF Dirty(r) THEN <<r, "add">> ELSE <<r, "record">>)
         /\ flags' = IF rc = 0 /\ ~Dirty(r) THEN [flags EXCEPT !.pr = <<>>] ELSE flags
    /\ UNCHANGED <<raw, bidders, env, fs, git, results, printed, runs, hist>>

(* git_commit_push, line 161 *)
GitAdd(r) ==
    /\ pc = <<r, "add">>
    /\ \E rc \in ExitCodes :
         /\ Run(r, "add", rc, "")
         /\ pc' = Propagate(rc, <<r, "commit">>)
    /\ UNCHANGED <<raw, bidders, env, fs, git, flags, results, printed, runs, hist>>

(* git_commit_push, line 162: everything in the tree becomes the new HEAD *)
GitCommit(r) ==
    /\ pc = <<r, "commit">>
    /\ \E rc \in ExitCodes :
         /\ Run(r, "commit", rc, "")
         /\ pc' = Propagate(rc, <<r, "push">>)
         /\ git' = IF rc = 0
                   THEN [git EXCEPT ![r].head = Wt(r), ![r].other = FALSE,
                                    ![r].sha = git[r].nextSha,
                                    ![r].nextSha = git[r].nextSha + 1]
                   ELSE git
    /\ UNCHANGED <<raw, bidders, env, fs, flags, results, printed, runs, hist>>

(* git_commit_push, lines 163-164 *)
GitPush(r) ==
    /\ pc = <<r, "push">>
    /\ \E rc \in ExitCodes :
         /\ Run(r, "push", rc, "")
         /\ pc' = Propagate(rc, <<r, "pr_create">>)
    /\ UNCHANGED <<raw, bidders, env, fs, git, flags, results, printed, runs, hist>>

(* gh_open_pr, line 168 *)
PrCreate(r) ==
    /\ pc = <<r, "pr_create">>
    /\ \E rc \in ExitCodes :
         /\ Run(r, "pr_create", rc, "")
         /\ pc' = Propagate(rc, <<r, "pr_view">>)
    /\ UNCHANGED <<raw, bidders, env, fs, git, flags, results, printed, runs, hist>>

(* gh_open_pr, lines 169-170 *)
PrView(r) ==
    /\ pc = <<r, "pr_view">>
    /\ \E rc \in ExitCodes :
         /\ Run(r, "pr_view", rc, "url")
         /\ pc' = Propagate(rc, <<r, "record">>)
         /\ flags' = IF rc = 0 THEN [flags EXCEPT !.pr = PrUrl] ELSE flags
    /\ UNCHANGED <<raw, bidders, env, fs, git, results, printed, runs, hist>>

(* the changed flag main reports for r *)
ChangedFlag(r) ==
    CASE r = "prebid" -> flags.prebid_changed
      [] r = "ams"    -> flags.ams_changed
      [] OTHER        -> flags.sub_changed

(* main, lines 204, 212, 217 *)
Record(r) ==
    /\ pc = <<r, "record">>
    /\ results' = [results EXCEPT ![r] = [set |-> TRUE, changed |-> ChangedFlag(r), pr |-> flags.pr]]
    /\ pc' = CASE r = "prebid" -> <<"prebid", "rev_parse">>
               [] r = "pubfig" -> <<"ams", "fetch">>
               [] OTHER        -> <<"main", "print">>
    /\ UNCHANGED <<raw, bidders, env, fs, git, flags, log, printed, runs, hist>>

(* main, line 206 *)
RevParse ==
    /\ pc = <<"prebid", "rev_parse">>
    /\ \E rc \in ExitCodes :
         /\ Run("prebid", "rev_parse", rc, "sha")
         /\ pc' = Propagate(rc, <<"pubfig", "fetch">>)
         /\ flags' = IF rc = 0 THEN [flags EXCEPT !.prebid_sha = git["prebid"].sha] ELSE flags
    /\ UNCHANGED <<raw, bidders, env, fs, git, results, printed, runs, hist>>

(* main, line 219 *)
PrintSummary ==
    /\ pc = <<"main", "print">>
    /\ printed' = TRUE
    /\ pc' = <<"main", "done">>
    /\ UNCHANGED <<raw, bidders, env, fs, git, flags, results, log, runs, hist>>

MaxRuns == 2

(* The operator invokes the tool again, with the same arguments, on the    *)
(* repositories as the completed run left them.                            *)
Rerun ==
    /\ pc = <<"main", "done">>
    /\ runs < MaxRuns
    /\ runs' = runs + 1
    /\ hist' = Append(hist, [results |-> results, before |-> flags.modules0,
                             after |-> fs.modules.text])
    /\ pc' = <<"main", "parse">>
    /\ bidders' = <<>>
    /\ flags' = NoFlags
    /\ results' = [r \in Repos |-> NoResult]
    /\ log' = <<>>
    /\ printed' = FALSE
    /\ UNCHANGED <<raw, env, fs, git>>

----------------------------------------------------------------------------
(* Initial states and specifications *)

(* --bidders arguments: k / k,t / [""] / a blank / [k] (not JSON) *)
RawInputs ==
    { <<"k">>, <<"k", COMMA, "t">>, <<LB, DQ, DQ, RB>>, <<SP>>, <<LB, "k", RB>> }

Present(text) == [exists |-> TRUE, text |-> text]
Missing == [exists |-> FALSE, text |-> <<>>]

(* modules.json: strict JSON; with a comment ("x"), hence not strict; strict *)
(* and already holding kBidAdapter *)
ModulesStrict == <<LB, NL, SP, SP, SP, SP, DQ, "f", SUFFIX, DQ, NL, RB, NL>>
ModulesComment == <<LB, NL, SP, SP, SP, SP, DQ, "f", SUFFIX, DQ, SP, "x", NL, RB, NL>>
ModulesHasK ==
    <<LB, NL, SP, SP, SP, SP, DQ, "f", SUFFIX, DQ, COMMA, NL,
      SP, SP, SP, SP, DQ, "k", SUFFIX, DQ, NL, RB, NL>>

ModulesFiles == {Present(ModulesStrict), Present(ModulesComment), Present(ModulesHasK), Missing}

(* PrebidModulesHelper.java around the array, and the array as it is written *)
Rendered(existing) == Join([i \in 1..Len(existing) |-> Quoted(existing[i])], <<COMMA, SP>>)

HelperText(pre, existing, post) == pre \o <<START>> \o Rendered(existing) \o <<ENDTOK>> \o post

HelperFiles ==
    { Present(HelperText(<<"x", NL>>, <<<<"a">>>>, <<NL, ENDTOK, NL>>)),
      Present(HelperText(<<"x", NL>>, <<<<"a">>, <<"k">>>>, <<NL, ENDTOK, NL>>)),
      Present(<<"x", NL, ENDTOK, NL>>) }

(* the pbjs-poc submodule: declared in .gitmodules or not; the commit it is at *)
SubStates ==
    { [declared |-> TRUE, ptr |-> 0], [declared |-> TRUE, ptr |-> 1],
      [declared |-> FALSE, ptr |-> 0] }

(* which working trees hold uncommitted changes to other files at the start *)
OtherDirt == SUBSET Repos

FileSystems ==
    { [modules |-> m, helper |-> h, sub |-> sb] :
          m \in ModulesFiles, h \in HelperFiles, sb \in SubStates }

Tracked(f, r) ==
    CASE r = "prebid" -> f.modules.text
      [] r = "ams"    -> f.helper.text
      [] OTHER        -> f.sub.ptr

(* every repository on its base branch, the tracked artefact as committed *)
GitOf(f, dirt) ==
    [r \in Repos |->
        [cur |-> "base", head |-> Tracked(f, r), base |-> Tracked(f, r),
         other |-> r \in dirt, sha |-> 1, baseSha |-> 1, nextSha |-> 2]]

Init ==
    /\ pc = <<"main", "parse">>
    /\ raw \in RawInputs
    /\ bidders = <<>>
    /\ env \in [token : BOOLEAN]
    /\ fs \in FileSystems
    /\ \E dirt \in OtherDirt : git = GitOf(fs, dirt)
    /\ flags = NoFlags
    /\ results = [r \in Repos |-> NoResult]
    /\ log = <<>>
    /\ printed = FALSE
    /\ runs = 1
    /\ hist = <<>>

Next ==
    \/ Parse
    \/ AuthNoToken
    \/ AuthStatus
    \/ AuthLogin
    \/ PatchPrebid
    \/ PatchAms
    \/ \E r \in Repos : GitFetch(r)
    \/ \E r \in Repos : GitCheckoutBase(r)
    \/ \E r \in Repos : GitPull(r)
    \/ \E r \in Repos : GitCheckoutB(r)
    \/ SyncEnter
    \/ SyncCommand
    \/ SyncStatus
    \/ \E r \in Repos : GitStatus(r)
    \/ \E r \in Repos : GitAdd(r)
    \/ \E r \in Repos : GitCommit(r)
    \/ \E r \in Repos : GitPush(r)
    \/ \E r \in Repos : PrCreate(r)
    \/ \E r \in Repos : PrView(r)
    \/ \E r \in Repos : Record(r)
    \/ RevParse
    \/ PrintSummary
    \/ Rerun

Spec == Init /\ [][Next]_vars

(* the state of everything a function-level specification does not use *)
Idle(f) ==
    /\ env = [token |-> FALSE]
    /\ fs = f
    /\ git = GitOf(f, {})
    /\ flags = NoFlags
    /\ results = [r \in Repos |-> NoResult]
    /\ log = <<>>
    /\ printed = FALSE
    /\ runs = 1
    /\ hist = <<>>

SomeFs == [modules |-> Present(ModulesStrict), helper |-> Missing, sub |-> [declared |-> FALSE, ptr |-> 0]]

(* parse_bidders on every argument of at most MaxRaw characters *)
MaxRaw == 4

RawAlphabet == {LB, RB, COMMA, SP, DQ, SQ, "k"}

InitParse ==
    /\ pc = <<"main", "parse">>
    /\ raw \in SeqsUpTo(RawAlphabet, MaxRaw)
    /\ bidders = <<>>
    /\ Idle(SomeFs)

SpecParse == InitParse /\ [][Parse]_vars

(* ensure_line_in_json_array called EnsureCalls times with the same value   *)
(* on every file of at most MaxText characters, and on the modules files    *)
MaxText == 4

EnsureCalls == 2

JsonAlphabet == {LB, RB, COMMA, NL, SP, DQ, "k", "x"}

JsonValues == { <<"k">>, <<"f", SUFFIX>> }

EnsureCall ==
    /\ pc = <<"harness", "ensure">>
    /\ Len(hist) < EnsureCalls
    /\ LET r == ensure_line_in_json_array(fs.modules.text, bidders[1]) IN
         /\ fs' = [fs EXCEPT !.modules.text = r.text]
         /\ hist' = Append(hist, [value |-> bidders[1], changed |-> r.changed, err |-> r.err,
                                  before |-> fs.modules.text, after |-> r.text])
    /\ UNCHANGED <<pc, raw, bidders, env, git, flags, results, log, printed, runs>>

InitJson ==
    /\ pc = <<"harness", "ensure">>
    /\ raw = <<>>
    /\ \E v \in JsonValues : bidders = <<v>>
    /\ env = [token |-> FALSE]
    /\ \E t \in SeqsUpTo(JsonAlphabet, MaxText)
                  \cup {ModulesStrict, ModulesComment, ModulesHasK} :
           fs = [SomeFs EXCEPT !.modules = Present(t)]
    /\ git = GitOf(SomeFs, {})
    /\ flags = NoFlags
    /\ results = [r \in Repos |-> NoResult]
    /\ log = <<>>
    /\ printed = FALSE
    /\ runs = 1
    /\ hist = <<>>

SpecJson == InitJson /\ [][EnsureCall]_vars

(* update_ams_helper on arrays of at most MaxExisting elements and          *)
(* at most MaxBidders input values                                          *)
MaxExisting == 2

MaxBidders == 2

(* elements of 1, 45, 46, 94, 95 and 98 characters *)
Slugs ==
    { <<"a">>, <<"w45">>, <<"w45", "b">>, <<"w94">>, <<"w94", "c">>,
      <<"w94", "d", "d", "d", "d">> }

HelperFrames ==
    { [pre |-> <<>>, post |-> <<>>],
      [pre |-> <<"x", ENDTOK, NL>>, post |-> <<NL, START, DQ, "z", DQ, ENDTOK, NL>>] }

AmsCall ==
    /\ pc = <<"harness", "ams">>
    /\ LET r == update_ams_helper(fs.helper, bidders) IN
         /\ fs' = [fs EXCEPT !.helper.text = r.text]
         /\ hist' = Append(hist, [changed |-> r.changed, err |-> r.err, wrote |-> r.wrote,
                                  before |-> fs.helper.text, after |-> r.text])
    /\ pc' = <<"harness", "done">>
    /\ UNCHANGED <<raw, bidders, env, git, flags, results, log, printed, runs>>

InitAms ==
    /\ pc = <<"harness", "ams">>
    /\ raw = <<>>
    /\ bidders \in SeqsUpTo(Slugs, MaxBidders)
    /\ env = [token |-> FALSE]
    /\ \E fr \in HelperFrames, existing \in SeqsUpTo(Slugs, MaxExisting) :
           fs = [SomeFs EXCEPT !.helper = Present(HelperText(fr.pre, existing, fr.post))]
    /\ git = GitOf(SomeFs, {})
    /\ flags = NoFlags
    /\ results = [r \in Repos |-> NoResult]
    /\ log = <<>>
    /\ printed = FALSE
    /\ runs = 1
    /\ hist = <<>>

SpecAms == InitAms /\ [][AmsCall]_vars

----------------------------------------------------------------------------
(* Properties *)

LogIdx == 1..Len(log)

IsExternal(e) == e.cmd # "patch"

Succeeded(r, cmd, i) == \E j \in 1..(i - 1) : log[j].repo = r /\ log[j].cmd = cmd /\ log[j].rc = 0

Ran(r, cmds) == \E i \in LogIdx : log[i].repo = r /\ log[i].cmd \in cmds

PrepareCmds == {"fetch", "checkout_base", "pull", "checkout_B"}

(* C1: in every run, a repository's patch is applied only after that       *)
(* repository's fetch, checkout-base, fast-forward-pull and                *)
(* create-or-reset-branch steps have completed, and before its check-dirty *)
(* step.                                                                   *)
C1_PatchAfterPrepare ==
    \A i \in LogIdx :
        log[i].cmd = "patch" =>
            /\ \A c \in PrepareCmds : Succeeded(log[i].repo, c, i)
            /\ \A j \in 1..(i - 1) : ~(log[j].repo = log[i].repo /\ log[j].cmd = "status")

CleanAtGate(r) ==
    \E i \in LogIdx : log[i] = Entry(r, "status", 0, "clean")

(* C2: if the working tree shows no changes at the check-dirty step, no    *)
(* commit, push or PR-creation command is run for the repository and its   *)
(* record has changed=false and pr=""; and a record with changed=false has *)
(* pr="".                                                                  *)
C2_GateAgreesWithChanged ==
    \A r \in Repos :
        /\ CleanAtGate(r) =>
              /\ ~Ran(r, {"add", "commit", "push", "pr_create"})
              /\ results[r].set => (~results[r].changed /\ results[r].pr = <<>>)
        /\ (results[r].set /\ ~results[r].changed) => results[r].pr = <<>>

Occurrences(p, s) == Cardinality({i \in 1..Len(s) : StartsWithAt(s, i, p)})

(* the file opens an array and closes one *)
ArrayLike(text) ==
    /\ LStrip(text, Whitespace) # <<>>
    /\ Head(LStrip(text, Whitespace)) = LB
    /\ \E i \in 1..Len(text) : text[i] = RB

(* the call is one the claim speaks of: the file parses as an array or is  *)
(* handled by the regex fallback, and the value is not in it yet           *)
EnsureCase(h) ==
    /\ JsonKind(h.before) \in {"list", "error"}
    /\ ArrayLike(h.before)
    /\ Occurrences(Quoted(h.value), h.before) = 0

(* C3: ensure_line_in_json_array is idempotent: for a value not yet in the *)
(* file the first call returns changed=true, a second call with the same   *)
(* value returns changed=false and leaves the content of the first call,   *)
(* in which the value is present exactly once.                             *)
C3_Idempotent ==
    (Len(hist) >= 1 /\ EnsureCase(hist[1])) =>
        /\ hist[1].changed
        /\ Occurrences(Quoted(hist[1].value), hist[1].after) = 1
        /\ Len(hist) >= 2 => (~hist[2].changed /\ hist[2].after = hist[1].after)

(* the first run appended "<bidder>BidAdapter" and reported changed=true *)
FirstRunAppended ==
    /\ Len(hist) >= 1
    /\ hist[1].results["prebid"].set
    /\ hist[1].results["prebid"].changed
    /\ \E i \in 1..Len(bidders) :
           /\ Occurrences(Quoted(BidAdapter(bidders[i])), hist[1].before) = 0
           /\ Occurrences(Quoted(BidAdapter(bidders[i])), hist[1].after) > 0

(* C4: after a first run that appended "<bidder>BidAdapter" and reported   *)
(* changed=true for prebid, a second run with the same bidders reports     *)
(* changed=false and pr="" for prebid and runs no commit, push or          *)
(* PR-creation command for it.                                             *)
C4_RerunIsNoOp ==
    (runs = 2 /\ FirstRunAppended) =>
        /\ ~flags.prebid_changed
        /\ ~Ran("prebid", {"commit", "push", "pr_create"})
        /\ results["prebid"].set =>
               (~results["prebid"].changed /\ results["prebid"].pr = <<>>)

(* the array body of the helper file: between the declaration and its "};" *)
ArrayBody(text) ==
    LET s == FirstIndex(text, START)
        tail == SubSeq(text, s + 1, Len(text))
    IN  SubSeq(tail, 1, FirstIndex(tail, ENDTOK) - 1)

Elements(text) == FindAllQuoted(ArrayBody(text), 1)

(* the values of vs that are not in existing, each once, in order *)
RECURSIVE MissingOnce(_, _)
MissingOnce(vs, existing) ==
    IF vs = <<>> THEN <<>>
    ELSE IF Head(vs) \in SeqToSet(existing) THEN MissingOnce(Tail(vs), existing)
    ELSE <<Head(vs)>> \o MissingOnce(Tail(vs), Append(existing, Head(vs)))

AmsReturned == Len(hist) = 1 /\ hist[1].err = "none"

(* C5: update_ams_helper returns changed=true iff some input value is not  *)
(* among the existing elements, and then the rebuilt array is the existing *)
(* elements in their order followed by the missing values, each once.      *)
C5_AppendsMissingOnce ==
    AmsReturned =>
        LET existing == Elements(hist[1].before)
            missing == MissingOnce(bidders, existing)
        IN  /\ hist[1].changed <=> missing # <<>>
            /\ hist[1].changed => Elements(hist[1].after) = existing \o missing

BodyLines(text) == Split(ArrayBody(text), NL)

HoldsOneToken(line) ==
    /\ Len(line) > 3
    /\ SubSeq(line, 1, 3) = LineIndent
    /\ Len(FindAllQuoted(line, 1)) = 1

TokenOf(line) == SubSeq(line, 4, Len(line))

LinesOfCall == IF AmsReturned /\ hist[1].changed THEN SeqToSet(BodyLines(hist[1].after)) ELSE {}

(* C7: no line of the rebuilt array body is longer than 100 characters,    *)
(* except a line that holds a single token whose length, together with the *)
(* three-tab indent, exceeds 100.                                          *)
C7_LineWidth ==
    \A line \in LinesOfCall :
        \/ StrLen(line) <= WidthLimit
        \/ HoldsOneToken(line) /\ StrLen(LineIndent) + StrLen(TokenOf(line)) > WidthLimit

(* C7 as claimed: the exception is a single token whose own length exceeds 100 *)
C7_LineWidthTokenAlone ==
    \A line \in LinesOfCall :
        \/ StrLen(line) <= WidthLimit
        \/ HoldsOneToken(line) /\ StrLen(TokenOf(line)) > WidthLimit

(* a line was closed exactly at the limit with two tokens on it, and a     *)
(* token too long for any line got a line of its own                       *)
C7_Witness ==
    /\ \E line \in LinesOfCall :
           StrLen(line) = WidthLimit /\ Len(FindAllQuoted(line, 1)) = 2
    /\ \E line \in LinesOfCall : StrLen(line) > WidthLimit

FailedAt(i) == IsExternal(log[i]) /\ log[i].rc # 0

StoppedAt(i) == i = Len(log) /\ pc = Aborted /\ ~printed

(* C8 as claimed: whenever any external command exits nonzero, at any step *)
(* including authentication, the run aborts at once: no further external   *)
(* command, no summary.                                                    *)
C8_StopOnAnyFailure == \A i \in LogIdx : FailedAt(i) => StoppedAt(i)

(* C8: whenever an external command other than the gh auth status probe    *)
(* exits nonzero the run aborts at once, no further external command is    *)
(* executed and no summary is printed; a nonzero exit of gh auth status is *)
(* caught and the next command is gh auth login.                           *)
C8_StopOnFailure ==
    \A i \in LogIdx :
        FailedAt(i) =>
            IF log[i].cmd = "gh_auth_status"
            THEN i < Len(log) => log[i + 1].cmd = "gh_auth_login"
            ELSE StoppedAt(i)

(* a push failed after the failure of gh auth status had been caught *)
C8_Witness ==
    /\ pc = Aborted
    /\ Len(log) > 2
    /\ log[1] = Entry("main", "gh_auth_status", 1, "")
    /\ log[Len(log)] = Entry("pubfig", "push", 1, "")

(* C9: every identifier parse_bidders returns is non-empty after trimming, *)
(* so the bidder list that reaches the patchers and the branch name holds  *)
(* no empty identifier.                                                    *)
C9_NoEmptyIdentifier ==
    pc = <<"main", "auth">> =>
        \A i \in 1..Len(bidders) : Strip(bidders[i], Whitespace) # <<>>

LastIndex(s, c) ==
    IF \A i \in 1..Len(s) : s[i] # c THEN 0
    ELSE CHOOSE i \in 1..Len(s) : s[i] = c /\ \A j \in (i + 1)..Len(s) : s[j] # c

(* text with a quoted line for value put immediately before its last "]" *)
InsertBeforeLastBracket(text, value) ==
    LET k == LastIndex(text, RB) IN
    SubSeq(text, 1, k - 1) \o <<SP, SP, SP, SP>> \o Quoted(value) \o <<NL>>
        \o SubSeq(text, k, Len(text))

(* C10: in the regex fallback, when the quoted value is not found before a *)
(* closing bracket, the call inserts one quoted line for the value         *)
(* immediately before the last closing bracket of the file, leaves every   *)
(* other bracket and all other text unchanged, and returns changed=true.   *)
(* (Whitespace at the very end of the file is not compared.)               *)
C10_FallbackInsertsOnce ==
    (/\ Len(hist) >= 1
     /\ JsonKind(hist[1].before) = "error"
     /\ ArrayLike(hist[1].before)
     /\ ~SearchValueBeforeBracket(hist[1].before, hist[1].value)) =>
        /\ hist[1].changed
        /\ RStrip(hist[1].after, Whitespace) =
               RStrip(InsertBeforeLastBracket(hist[1].before, hist[1].value), Whitespace)

====
